---- MODULE Spec2Model ----
(***************************************************************************)
(* Model of immoinvest_app.py: the loan amortization helpers, the          *)
(* scenario (A/B) parameters, the list of properties ("biens") and the     *)
(* year-by-year projection with its aggregation and taxation.              *)
(*                                                                         *)
(* Arithmetic.  The program computes in binary floating point.  The model  *)
(* computes in decimal fixed point with round-to-nearest: a rate is an     *)
(* integer number of 1/Scale (0.03 is 300), an amount of money an integer  *)
(* number of units, and every product or quotient of the code is rounded   *)
(* to the nearest representable value (RDiv), as a float operation is.     *)
(* Only the resolution differs from the program's (1/Scale against         *)
(* 2^-53): what the code loses to rounding with a long loan at a high      *)
(* rate, the model loses with a short loan at a higher rate.               *)
(***************************************************************************)
EXTENDS Integers, Sequences, FiniteSets, TLC

\* biens, hypA, hypB, current_scenario, overlay_AB and status are the
\* attributes of ImmoApp.  The other variables hold what the latest handler
\* left on screen: the message box it showed (message), the entry window it
\* left open because saving failed (dialog), and the tables of the projection
\* it ran (hyp_sel, res_sel, res_other).
VARIABLES biens, hypA, hypB, current_scenario, overlay_AB, status,
          message, dialog, hyp_sel, res_sel, res_other

vars == <<biens, hypA, hypB, current_scenario, overlay_AB, status,
          message, dialog, hyp_sel, res_sel, res_other>>

\* Resolution of the fixed-point arithmetic: rates are multiples of 1/Scale.
Scale == 10000

\* Largest number of biens the model lets the user add.
MaxBiens == 2

\* mensualite_credit / tableau_amortissement: n = int(duree_annees) * 12
MoisParAn == 12

\* mensualite_credit: abs(taux_mensuel) < 1e-12, which is below the model's
\* resolution: only a monthly rate of exactly 0 is below it.
Epsilon == 1

Abs(x) == IF x < 0 THEN -x ELSE x

Max(a, b) == IF a >= b THEN a ELSE b

\* a / b rounded to the nearest integer (halves away from zero), b # 0:
\* the rounding of one floating-point operation.
RDiv(a, b) ==
    LET n == IF b < 0 THEN -a ELSE a
        d == Abs(b)
        q == Abs(n) \div d
        r == Abs(n) % d
        v == IF 2 * r >= d THEN q + 1 ELSE q
    IN IF n < 0 THEN -v ELSE v

\* int(float(s)): truncation toward zero of an entry given in tenths.
IntOfTenths(t) == IF t < 0 THEN -((-t) \div 10) ELSE t \div 10

\* float(s) / 100.0 of an entry given in tenths of a percent.
FromPercent(t) == RDiv(t * Scale, 1000)

\* x ** k for k >= 0, x a fixed-point factor (Scale is 1.0).
RECURSIVE Pow(_, _)
Pow(x, k) == IF k <= 0 THEN Scale ELSE RDiv(Pow(x, k - 1) * x, Scale)

\* x ** -k for k >= 0 and x # 0.
RECURSIVE PowNeg(_, _)
PowNeg(x, k) == IF k <= 0 THEN Scale ELSE RDiv(PowNeg(x, k - 1) * Scale, x)

(***************************************************************************)
(* Finance helpers                                                         *)
(***************************************************************************)

\* mensualite_raises with the rate formula evaluated before the early
\* return on n <= 0.
mensualite_raises_sans_garde(capital, taux_annuel, duree_annees) ==
    LET n == duree_annees * MoisParAn
        taux_mensuel == RDiv(taux_annuel, MoisParAn)
    IN /\ Abs(taux_mensuel) >= Epsilon
       /\ \/ Scale + taux_mensuel = 0
          \/ Scale - PowNeg(Scale + taux_mensuel, n) = 0

\* The ZeroDivisionError of mensualite_credit: 0.0 ** -n when the monthly
\* rate is -100%, or a denominator 1 - (1 + taux_mensuel) ** -n of zero.
mensualite_raises(capital, taux_annuel, duree_annees) ==
    LET n == duree_annees * MoisParAn
        taux_mensuel == RDiv(taux_annuel, MoisParAn)
    IN /\ n > 0
       /\ Abs(taux_mensuel) >= Epsilon
       /\ \/ Scale + taux_mensuel = 0
          \/ Scale - PowNeg(Scale + taux_mensuel, n) = 0

\* Monthly payment of a constant-annuity loan.
mensualite_credit(capital, taux_annuel, duree_annees) ==
    LET n == duree_annees * MoisParAn
        taux_mensuel == RDiv(taux_annuel, MoisParAn)
    IN IF n <= 0 THEN 0
       ELSE IF Abs(taux_mensuel) < Epsilon THEN RDiv(capital, n)
       ELSE RDiv(capital * RDiv(taux_mensuel * Scale,
                                Scale - PowNeg(Scale + taux_mensuel, n)),
                 Scale)

\* amortissement_rows without the clamp of the balance at 0.
RECURSIVE amortissement_rows_sans_clamp(_, _, _, _, _)
amortissement_rows_sans_clamp(i, n, r, m, balance) ==
    IF i > n THEN <<>>
    ELSE LET interest == RDiv(balance * r, Scale)
             principal == Max(m - interest, 0)
             newBalance == balance - principal
             row == [month_index |-> i,
                     year |-> ((i - 1) \div MoisParAn) + 1,
                     month |-> ((i - 1) % MoisParAn) + 1,
                     payment |-> m,
                     interest |-> interest,
                     principal |-> principal,
                     balance |-> newBalance]
         IN <<row>> \o amortissement_rows_sans_clamp(i + 1, n, r, m, newBalance)

\* One pass of the loop of tableau_amortissement, months i..n, from the
\* balance left by month i - 1.
RECURSIVE amortissement_rows(_, _, _, _, _)
amortissement_rows(i, n, r, m, balance) ==
    IF i > n THEN <<>>
    ELSE LET interest == RDiv(balance * r, Scale)
             principal == Max(m - interest, 0)
             newBalance == Max(0, balance - principal)
             row == [month_index |-> i,
                     year |-> ((i - 1) \div MoisParAn) + 1,
                     month |-> ((i - 1) % MoisParAn) + 1,
                     payment |-> m,
                     interest |-> interest,
                     principal |-> principal,
                     balance |-> newBalance]
         IN <<row>> \o amortissement_rows(i + 1, n, r, m, newBalance)

\* The monthly schedule: month_index, year, month, payment, interest,
\* principal, balance.
tableau_amortissement(capital, taux_annuel, duree_annees) ==
    LET n == duree_annees * MoisParAn
    IN IF n <= 0 THEN <<>>
       ELSE amortissement_rows(1, n, RDiv(taux_annuel, MoisParAn),
                               mensualite_credit(capital, taux_annuel, duree_annees),
                               capital)

(***************************************************************************)
(* Hypotheses (scenarios A/B)                                              *)
(***************************************************************************)

\* HypScenario.__init__: the defaults of a scenario.
HypScenario(name) ==
    [name |-> name,
     revalo_loyers |-> 150,
     idx_assurance |-> 100,
     idx_copro |-> 100,
     idx_taxe |-> 120,
     idx_assu_empr |-> 100,
     idx_autres |-> 100,
     tmi |-> 3000,
     ps |-> 1720,
     duree_projection |-> 15]

\* The nine entries of the hypotheses window, in the order save() reads them.
HypFields == <<"revalo_loyers", "idx_assurance", "idx_copro", "idx_taxe",
               "idx_assu_empr", "idx_autres", "tmi", "ps", "duree_projection">>

\* What the user may type in the hypotheses window: vals are the nine
\* entries (rates in tenths of a percent, the horizon in tenths of a year),
\* bad the position of a non-numeric entry (0: none).
HypForms ==
    { [vals |-> <<20, 15, 0, 12, 10, -10, -50, 172, 37>>, bad |-> 0],
      [vals |-> <<30, 25, 10, 12, 10, 10, 110, 172, 40>>, bad |-> 3] }

\* The value save() assigns to field number i from its entry.
hyp_entry_value(i, t) ==
    IF HypFields[i] = "duree_projection" THEN IntOfTenths(t) ELSE FromPercent(t)

\* edit_hypotheses.save, the assignments of fields i..9 in order: the first
\* non-numeric entry raises and the assignments after it are not made.
RECURSIVE hyp_assign(_, _, _)
hyp_assign(hyp, form, i) ==
    IF i > Len(HypFields) \/ form.bad = i THEN hyp
    ELSE hyp_assign([hyp EXCEPT ![HypFields[i]] = hyp_entry_value(i, form.vals[i])],
                    form, i + 1)

(***************************************************************************)
(* Biens                                                                   *)
(***************************************************************************)

\* What the user may type in the "Nouveau bien" window: duree in tenths of a
\* year, taux in tenths of a percent, amounts in units; bad: some entry is
\* not numeric.
BienForms ==
    { [nom |-> "", prix |-> 120000, emprunt |-> 100000, duree |-> 10, taux |-> 120,
       loyer |-> 12000, assurance |-> 500, taxe_fonciere |-> 1000, copro |-> 0,
       assurance_emprunteur |-> 300, autres |-> 0, bad |-> FALSE],
      [nom |-> "Bien2", prix |-> 90000, emprunt |-> 0, duree |-> 0, taux |-> 0,
       loyer |-> 12000, assurance |-> 0, taxe_fonciere |-> 0, copro |-> 0,
       assurance_emprunteur |-> 0, autres |-> 0, bad |-> FALSE],
      [nom |-> "Bien2", prix |-> 30000, emprunt |-> 24000, duree |-> 25, taux |-> 0,
       loyer |-> 0, assurance |-> 0, taxe_fonciere |-> 0, copro |-> 600,
       assurance_emprunteur |-> 0, autres |-> 200, bad |-> FALSE],
      [nom |-> "", prix |-> 100000, emprunt |-> 100000, duree |-> 10, taux |-> 24000,
       loyer |-> 12000, assurance |-> 0, taxe_fonciere |-> 0, copro |-> 0,
       assurance_emprunteur |-> 0, autres |-> 0, bad |-> FALSE],
      [nom |-> "Studio", prix |-> 60000, emprunt |-> 50000, duree |-> -15, taux |-> -12000,
       loyer |-> 9000, assurance |-> 0, taxe_fonciere |-> 800, copro |-> 0,
       assurance_emprunteur |-> 0, autres |-> 0, bad |-> FALSE],
      [nom |-> "Studio", prix |-> 100000, emprunt |-> 100000, duree |-> 10, taux |-> -120,
       loyer |-> 7000, assurance |-> 0, taxe_fonciere |-> 0, copro |-> 0,
       assurance_emprunteur |-> 0, autres |-> 0, bad |-> FALSE],
      [nom |-> "", prix |-> 100000, emprunt |-> 100000, duree |-> 10, taux |-> -12000,
       loyer |-> 7000, assurance |-> 0, taxe_fonciere |-> 0, copro |-> 0,
       assurance_emprunteur |-> 0, autres |-> 0, bad |-> FALSE],
      [nom |-> "", prix |-> 0, emprunt |-> 0, duree |-> 0, taux |-> 0,
       loyer |-> 0, assurance |-> 0, taxe_fonciere |-> 0, copro |-> 0,
       assurance_emprunteur |-> 0, autres |-> 0, bad |-> TRUE] }

\* add_bien.save: the dict built from the entries, before mensualite and
\* amort are added to it.
bien_of_entries(f, nb) ==
    [nom |-> IF f.nom = "" THEN "Bien" \o ToString(nb + 1) ELSE f.nom,
     prix |-> f.prix,
     emprunt |-> f.emprunt,
     duree |-> IntOfTenths(f.duree),
     taux |-> FromPercent(f.taux),
     loyer |-> f.loyer,
     charges |-> [assurance |-> f.assurance,
                  taxe_fonciere |-> f.taxe_fonciere,
                  copro |-> f.copro,
                  assurance_emprunteur |-> f.assurance_emprunteur,
                  autres |-> f.autres]]

\* add_bien.save: the bien with its monthly payment and its schedule.
bien_complete(b) ==
    [nom |-> b.nom, prix |-> b.prix, emprunt |-> b.emprunt, duree |-> b.duree,
     taux |-> b.taux, loyer |-> b.loyer, charges |-> b.charges,
     mensualite |-> mensualite_credit(b.emprunt, b.taux, b.duree),
     amort |-> tableau_amortissement(b.emprunt, b.taux, b.duree)]

\* add_bien.save raises: a non-numeric entry, or the division by zero of
\* mensualite_credit.
add_bien_raises(f) ==
    \/ f.bad
    \/ LET b == bien_of_entries(f, 0)
       IN mensualite_raises(b.emprunt, b.taux, b.duree)

(***************************************************************************)
(* Projection                                                              *)
(***************************************************************************)

RECURSIVE SumSeq(_)
SumSeq(s) == IF s = <<>> THEN 0 ELSE Head(s) + SumSeq(Tail(s))

\* df_am.groupby("year")["interest"].sum().to_dict()
interets_par_an(amort) ==
    [y \in {amort[i].year : i \in DOMAIN amort} |->
        SumSeq([i \in DOMAIN amort |->
                   IF amort[i].year = y THEN amort[i].interest ELSE 0])]

\* dict.get(key, default)
dict_get(d, key, default) == IF key \in DOMAIN d THEN d[key] ELSE default

\* range(1, int(hyp.duree_projection) + 1)
annees_of(hyp) == [i \in 1..Max(hyp.duree_projection, 0) |-> i]

\* The powers (1 + idx) ** k of the rates and horizons a scenario can hold,
\* computed once.
PowTable ==
    LET rates == {HypScenario("A")[HypFields[i]] : i \in 1..6}
                 \cup {hyp_entry_value(i, form.vals[i]) : i \in 1..6, form \in HypForms}
        horizons == {HypScenario("A").duree_projection}
                    \cup {hyp_entry_value(9, form.vals[9]) : form \in HypForms}
    IN [x \in {Scale + r : r \in rates} |->
          [k \in 0..Max(0, (CHOOSE h \in horizons : \A g \in horizons : g <= h) - 1) |->
              Pow(x, k)]]

\* (1 + idx) ** k
pow_idx(idx, k) ==
    IF Scale + idx \in DOMAIN PowTable /\ k \in DOMAIN PowTable[Scale + idx]
    THEN PowTable[Scale + idx][k]
    ELSE Pow(Scale + idx, k)

\* indexe with the exponent left out: base * (1 + idx) whatever the year.
indexe_sans_exposant(base, idx, year) == RDiv(base * (Scale + idx), Scale)

\* base * ((1 + idx) ** (year - 1))
indexe(base, idx, year) == RDiv(base * pow_idx(idx, year - 1), Scale)

\* The six indexed lines of a bien: the rent and the five charges.
Lignes == {"loyer", "assurance", "copro", "taxe_fonciere",
           "assurance_emprunteur", "autres"}

\* The year-1 base of a line: b["loyer"] or b["charges"].get(line, 0.0).
ligne_base(b, ligne) == IF ligne = "loyer" THEN b.loyer ELSE b.charges[ligne]

\* The rate of the scenario that indexes a line.
ligne_idx(hyp, ligne) ==
    CASE ligne = "loyer" -> hyp.revalo_loyers
      [] ligne = "assurance" -> hyp.idx_assurance
      [] ligne = "copro" -> hyp.idx_copro
      [] ligne = "taxe_fonciere" -> hyp.idx_taxe
      [] ligne = "assurance_emprunteur" -> hyp.idx_assu_empr
      [] ligne = "autres" -> hyp.idx_autres

\* loy, ass, copro, taxe, assu_empr, autres of a year.
ligne_an(b, hyp, ligne, year) ==
    indexe(ligne_base(b, ligne), ligne_idx(hyp, ligne), year)

\* charges_tot = ass + copro + assu_empr + autres
charges_tot_an(b, hyp, year) ==
    ligne_an(b, hyp, "assurance", year) + ligne_an(b, hyp, "copro", year)
    + ligne_an(b, hyp, "assurance_emprunteur", year) + ligne_an(b, hyp, "autres", year)

\* annuite_an without the test on the year: the annuity is paid every year.
annuite_an_sans_garde(b, year) == b.mensualite * 12

\* annuite = mensualite_annuelle if year <= b["duree"] else 0.0
annuite_an(b, year) == IF year <= b.duree THEN b.mensualite * 12 ELSE 0

\* interets = interets_par_an.get(year, 0.0) if year <= b["duree"] else 0.0
interets_an(b, year) ==
    IF year <= b.duree THEN dict_get(interets_par_an(b.amort), year, 0) ELSE 0

\* revenu_imposable = loy - charges_tot - taxe - interets
revenu_imposable_an(b, hyp, year) ==
    ligne_an(b, hyp, "loyer", year) - charges_tot_an(b, hyp, year)
    - ligne_an(b, hyp, "taxe_fonciere", year) - interets_an(b, year)

\* cashflow = loy - charges_tot - taxe - annuite
cashflow_an(b, hyp, year) ==
    ligne_an(b, hyp, "loyer", year) - charges_tot_an(b, hyp, year)
    - ligne_an(b, hyp, "taxe_fonciere", year) - annuite_an(b, year)

\* The list under key nom after the loop over biens k..Len(bs): every bien
\* of that name appends one value per year to the same list.
RECURSIVE resultats_list(_, _, _, _, _)
resultats_list(bs, hyp, nom, k, imposable) ==
    IF k > Len(bs) THEN <<>>
    ELSE (IF bs[k].nom = nom
          THEN [i \in DOMAIN annees_of(hyp) |->
                   IF imposable THEN revenu_imposable_an(bs[k], hyp, annees_of(hyp)[i])
                   ELSE cashflow_an(bs[k], hyp, annees_of(hyp)[i])]
          ELSE <<>>)
         \o resultats_list(bs, hyp, nom, k + 1, imposable)

\* resultats_cashflow (imposable FALSE) and resultats_imposable (TRUE): a
\* dict keyed by the name of the bien.
resultats(bs, hyp, imposable) ==
    [nom \in {bs[k].nom : k \in DOMAIN bs} |-> resultats_list(bs, hyp, nom, 1, imposable)]

\* total[i] = sum(resultats[b["nom"]][i] for b in self.biens)
total_of(bs, hyp, res) ==
    [i \in DOMAIN annees_of(hyp) |-> SumSeq([k \in DOMAIN bs |-> res[bs[k].nom][i]])]

\* impot_of without the clamp at 0: total_imposable[i] * taux, the product
\* taken on the quotient and the remainder of the total by Scale so that a
\* large loss stays within the integers' width.
impot_of_sans_clamp(total_imposable, taux) ==
    [i \in DOMAIN total_imposable |->
        ((total_imposable[i] \div Scale) * taux)
            + RDiv((total_imposable[i] % Scale) * taux, Scale)]

\* max(total_imposable[i], 0) * taux
impot_of(total_imposable, taux) ==
    [i \in DOMAIN total_imposable |-> RDiv(Max(total_imposable[i], 0) * taux, Scale)]

\* ImmoApp._project_with_scenario
project_with_scenario(bs, hyp) ==
    LET resultats_cashflow == resultats(bs, hyp, FALSE)
        resultats_imposable == resultats(bs, hyp, TRUE)
        total_cashflow == total_of(bs, hyp, resultats_cashflow)
        total_imposable == total_of(bs, hyp, resultats_imposable)
        impots == impot_of(total_imposable, hyp.tmi)
        ps == impot_of(total_imposable, hyp.ps)
    IN [annees |-> annees_of(hyp),
        resultats_cashflow |-> resultats_cashflow,
        resultats_imposable |-> resultats_imposable,
        total_cashflow |-> total_cashflow,
        total_imposable |-> total_imposable,
        impots |-> impots,
        ps |-> ps,
        cf_after_tax |-> [i \in DOMAIN total_cashflow |->
                             total_cashflow[i] - impots[i] - ps[i]]]

(***************************************************************************)
(* Application                                                             *)
(***************************************************************************)

\* ImmoApp.__init__
Init ==
    /\ biens = <<>>
    /\ hypA = HypScenario("A")
    /\ hypB = HypScenario("B")
    /\ current_scenario = "A"
    /\ overlay_AB = FALSE
    /\ status = "Ajoutez vos biens"
    /\ message = "none"
    /\ dialog = <<>>
    /\ hyp_sel = ""
    /\ res_sel = <<>>
    /\ res_other = <<>>

\* No projection on screen.
NoProjection == /\ hyp_sel' = "" /\ res_sel' = <<>> /\ res_other' = <<>>

\* The combobox "Scenario affiche" bound to current_scenario.
SelectScenario(which) ==
    /\ current_scenario # which
    /\ current_scenario' = which
    /\ message' = "none" /\ dialog' = <<>> /\ NoProjection
    /\ UNCHANGED <<biens, hypA, hypB, overlay_AB, status>>

\* The checkbutton "Superposer A & B" bound to overlay_AB.
ToggleOverlay ==
    /\ overlay_AB' = ~overlay_AB
    /\ message' = "none" /\ dialog' = <<>> /\ NoProjection
    /\ UNCHANGED <<biens, hypA, hypB, current_scenario, status>>

\* add_bien and its save(): the bien is appended, or an error is shown and
\* the window stays open.
AddBien(f) ==
    /\ Len(biens) < MaxBiens
    /\ IF add_bien_raises(f)
       THEN /\ message' = "Erreur: Entrees invalides"
            /\ dialog' = <<[window |-> "add_bien", entries |-> f]>>
            /\ UNCHANGED <<biens, status>>
       ELSE LET bien == bien_complete(bien_of_entries(f, Len(biens)))
            IN /\ biens' = Append(biens, bien)
               /\ status' = bien.nom \o " ajoute."
               /\ message' = "none"
               /\ dialog' = <<>>
    /\ NoProjection
    /\ UNCHANGED <<hypA, hypB, current_scenario, overlay_AB>>

\* edit_hypotheses with hypA and hypB bound to one shared HypScenario
\* instance: the save is seen through both names.
EditHypotheses_partage(which, form) ==
    /\ hypA' = hyp_assign(IF which = "A" THEN hypA ELSE hypB, form, 1)
    /\ hypB' = hypA'
    /\ IF form.bad = 0
       THEN /\ message' = "OK: Hypotheses mises a jour"
            /\ dialog' = <<>>
       ELSE /\ message' = "Erreur: Valeurs invalides"
            /\ dialog' = <<[window |-> "edit_hypotheses", which |-> which,
                            entries |-> form]>>
    /\ NoProjection
    /\ UNCHANGED <<biens, current_scenario, overlay_AB, status>>

\* edit_hypotheses(which) and its save().
EditHypotheses(which, form) ==
    /\ IF which = "A"
       THEN /\ hypA' = hyp_assign(hypA, form, 1)
            /\ UNCHANGED hypB
       ELSE /\ hypB' = hyp_assign(hypB, form, 1)
            /\ UNCHANGED hypA
    /\ IF form.bad = 0
       THEN /\ message' = "OK: Hypotheses mises a jour"
            /\ dialog' = <<>>
       ELSE /\ message' = "Erreur: Valeurs invalides"
            /\ dialog' = <<[window |-> "edit_hypotheses", which |-> which,
                            entries |-> form]>>
    /\ NoProjection
    /\ UNCHANGED <<biens, current_scenario, overlay_AB, status>>

\* show_projection with the yearly annuity written back into the bien
\* (b["mensualite"] *= 12) instead of kept in a local.
ShowProjection_annualise ==
    /\ biens # <<>>
    /\ LET sel == IF current_scenario = "A" THEN hypA ELSE hypB
           other == IF current_scenario = "A" THEN hypB ELSE hypA
       IN /\ message' = "none"
          /\ hyp_sel' = sel.name
          /\ res_sel' = <<project_with_scenario(biens, sel)>>
          /\ res_other' = IF overlay_AB
                          THEN <<project_with_scenario(biens, other)>>
                          ELSE <<>>
    /\ biens' = [k \in DOMAIN biens |-> [biens[k] EXCEPT !.mensualite = @ * 12]]
    /\ dialog' = <<>>
    /\ UNCHANGED <<hypA, hypB, current_scenario, overlay_AB, status>>

\* show_projection: the tables of the selected scenario and, with the
\* overlay, those of the other one.
ShowProjection ==
    /\ IF biens = <<>>
       THEN /\ message' = "Attention: Aucun bien ajoute"
            /\ NoProjection
       ELSE LET sel == IF current_scenario = "A" THEN hypA ELSE hypB
                other == IF current_scenario = "A" THEN hypB ELSE hypA
            IN /\ message' = "none"
               /\ hyp_sel' = sel.name
               /\ res_sel' = <<project_with_scenario(biens, sel)>>
               /\ res_other' = IF overlay_AB
                               THEN <<project_with_scenario(biens, other)>>
                               ELSE <<>>
    /\ dialog' = <<>>
    /\ UNCHANGED <<biens, hypA, hypB, current_scenario, overlay_AB, status>>

Next ==
    \/ \E which \in {"A", "B"} : SelectScenario(which)
    \/ ToggleOverlay
    \/ \E f \in BienForms : AddBien(f)
    \/ \E which \in {"A", "B"} : \E form \in HypForms : EditHypotheses(which, form)
    \/ ShowProjection

Spec == Init /\ [][Next]_vars

(***************************************************************************)
(* Properties                                                              *)
(***************************************************************************)

Hyp(name) == IF name = "A" THEN hypA ELSE hypB

OtherName(name) == IF name = "A" THEN "B" ELSE "A"

\* The projections on screen, each with the scenario it was run under.
Shown ==
    (IF res_sel = <<>> THEN {} ELSE {[res |-> res_sel[1], hyp |-> Hyp(hyp_sel)]})
    \cup (IF res_other = <<>> THEN {}
          ELSE {[res |-> res_other[1], hyp |-> Hyp(OtherName(hyp_sel))]})

\* The number of biens before bien k that carry its name.
Rank(k) == Cardinality({j \in 1..(k - 1) : biens[j].nom = biens[k].nom})

\* The value the projection appended for bien k and the i-th year to the
\* list of its name (each bien appends one value per year, in order).
Entry(series, hyp, k, i) ==
    series[biens[k].nom][Rank(k) * Len(annees_of(hyp)) + i]

\* The balance outstanding before row i of the schedule of bien b.
BalanceBefore(b, i) == IF i = 1 THEN b.emprunt ELSE b.amort[i - 1].balance

Min(a, b) == IF a <= b THEN a ELSE b

\* C1: the total cash flow of every projected year is the sum of the cash
\* flows of all the biens of the portfolio, names distinct or not; for an
\* empty portfolio every total is 0.
C1_TotalIsSumOfBiens ==
    /\ \A s \in Shown : \A i \in DOMAIN s.res.annees :
          s.res.total_cashflow[i]
            = SumSeq([k \in DOMAIN biens |-> cashflow_an(biens[k], s.hyp, s.res.annees[i])])
    /\ biens = <<>> =>
          \A h \in {hypA, hypB} : \A i \in DOMAIN annees_of(h) :
              project_with_scenario(biens, h).total_cashflow[i] = 0

\* C2: for every bien, the cash-flow series and the taxable-income series the
\* projection returns under its name have exactly duree_projection entries.
C2_SeriesHaveHorizonLength ==
    \A s \in Shown : \A k \in DOMAIN biens :
        /\ Len(s.res.resultats_cashflow[biens[k].nom]) = s.hyp.duree_projection
        /\ Len(s.res.resultats_imposable[biens[k].nom]) = s.hyp.duree_projection

\* C3: in every row of a schedule the principal is min(payment - interest,
\* balance before the row): interest + principal = payment except in the
\* last, clamped month, and the principal never exceeds the balance before.
C3_PrincipalCappedAtBalance ==
    \A k \in DOMAIN biens : \A i \in DOMAIN biens[k].amort :
        LET row == biens[k].amort[i]
            before == BalanceBefore(biens[k], i)
        IN /\ row.principal = Min(row.payment - row.interest, before)
           /\ \/ row.interest + row.principal = row.payment
              \/ i = Len(biens[k].amort) /\ row.principal = before
           /\ row.principal <= before

\* The rounding tolerance on an amount: ten times the resolution, relative
\* to the capital.
Tolerance(capital) == RDiv(capital * 10, Scale)

\* C4: with capital > 0, rate > 0 and duration > 0 the last row of the
\* schedule has a balance of 0 and the principal column sums to the capital,
\* both within the rounding tolerance.
C4_ScheduleRepaysCapital ==
    \A k \in DOMAIN biens :
        LET b == biens[k]
        IN (b.emprunt > 0 /\ b.taux > 0 /\ b.duree > 0) =>
              /\ Len(b.amort) = b.duree * MoisParAn
              /\ b.amort[Len(b.amort)].balance <= Tolerance(b.emprunt)
              /\ Abs(SumSeq([i \in DOMAIN b.amort |-> b.amort[i].principal]) - b.emprunt)
                    <= Tolerance(b.emprunt)

\* C5: along the rows of a schedule, starting from the capital, the balance
\* never increases and is never negative, whatever the rate.
C5_BalanceNonIncreasing ==
    \A k \in DOMAIN biens : \A i \in DOMAIN biens[k].amort :
        /\ biens[k].amort[i].balance >= 0
        /\ biens[k].amort[i].balance <= BalanceBefore(biens[k], i)

\* A schedule whose last month was clamped (the principal of the row
\* exceeded the balance left), and one generated at a negative rate.
C5_Witness ==
    /\ \E k \in DOMAIN biens :
          /\ biens[k].amort # <<>>
          /\ LET n == Len(biens[k].amort)
             IN /\ biens[k].amort[n].principal > BalanceBefore(biens[k], n)
                /\ biens[k].amort[n].balance = 0
    /\ \E k \in DOMAIN biens : biens[k].amort # <<>> /\ biens[k].taux < 0

\* C6: a bien whose duration is zero or negative gets an empty schedule and
\* a monthly payment of 0, and saving it raises no error: an "add bien"
\* window left open on an error with numeric entries has a duration > 0.
C6_NoLoanWhenDurationNotPositive ==
    /\ \A k \in DOMAIN biens :
          biens[k].duree <= 0 => biens[k].amort = <<>> /\ biens[k].mensualite = 0
    /\ \A d \in {dialog[j] : j \in DOMAIN dialog} :
          (d.window = "add_bien" /\ ~d.entries.bad) => IntOfTenths(d.entries.duree) > 0

\* Biens of duration 0 and of negative duration, the latter at the rate
\* (-100% a month) that raises a division by zero when the duration is > 0.
C6_Witness ==
    /\ \E k \in DOMAIN biens : biens[k].duree = 0
    /\ \E k \in DOMAIN biens :
          /\ biens[k].duree < 0 /\ biens[k].emprunt > 0
          /\ mensualite_raises(biens[k].emprunt, biens[k].taux, 1)

\* C7 as stated: in a year whose aggregate taxable income is negative or
\* zero the tax and the social levy are 0 and the after-tax cash flow is the
\* total cash flow; tax and levy are never negative.
C7_TaxNeverNegative ==
    \A s \in Shown : \A i \in DOMAIN s.res.annees :
        /\ s.res.total_imposable[i] <= 0 =>
              /\ s.res.impots[i] = 0
              /\ s.res.ps[i] = 0
              /\ s.res.cf_after_tax[i] = s.res.total_cashflow[i]
        /\ s.res.impots[i] >= 0
        /\ s.res.ps[i] >= 0

\* C7 as amended: in a year whose aggregate taxable income is negative or
\* zero the tax and the social levy are 0 and the after-tax cash flow is the
\* total cash flow; the tax is never negative when the scenario's tmi is not
\* negative, the levy never when its ps is not negative.
C7_TaxZeroOnLoss ==
    \A s \in Shown : \A i \in DOMAIN s.res.annees :
        /\ s.res.total_imposable[i] <= 0 =>
              /\ s.res.impots[i] = 0
              /\ s.res.ps[i] = 0
              /\ s.res.cf_after_tax[i] = s.res.total_cashflow[i]
        /\ s.hyp.tmi >= 0 => s.res.impots[i] >= 0
        /\ s.hyp.ps >= 0 => s.res.ps[i] >= 0

\* A projection at positive rates with a year of negative aggregate taxable
\* income, and a year of positive aggregate in which one bien alone has a
\* negative taxable income.
C7_Witness ==
    \E s \in Shown :
        /\ s.hyp.tmi > 0 /\ s.hyp.ps > 0
        /\ \E i \in DOMAIN s.res.annees : s.res.total_imposable[i] < 0
        /\ \E i \in DOMAIN s.res.annees :
              /\ s.res.total_imposable[i] > 0 /\ s.res.impots[i] > 0
              /\ \E k \in DOMAIN biens :
                    revenu_imposable_an(biens[k], s.hyp, s.res.annees[i]) < 0

\* C8: for every bien and every projected year after its loan duration
\* (every year when the duration is 0) neither an annuity nor interest is
\* subtracted: cash flow = taxable income = rent - charges - property tax,
\* which is loyer * (1 + revalo_loyers)^(year - 1) when all charges are 0.
C8_NoDebtServiceAfterLoan ==
    \A s \in Shown : \A k \in DOMAIN biens : \A i \in DOMAIN s.res.annees :
        LET year == s.res.annees[i]
            b == biens[k]
            net == ligne_an(b, s.hyp, "loyer", year) - charges_tot_an(b, s.hyp, year)
                   - ligne_an(b, s.hyp, "taxe_fonciere", year)
        IN year > b.duree =>
              /\ Entry(s.res.resultats_cashflow, s.hyp, k, i) = net
              /\ Entry(s.res.resultats_imposable, s.hyp, k, i) = net
              /\ (\A c \in DOMAIN b.charges : b.charges[c] = 0) =>
                    net = RDiv(b.loyer * Pow(Scale + s.hyp.revalo_loyers, year - 1), Scale)

\* A projection that runs past the end of a loan with a positive payment,
\* over a portfolio that also holds a bien without loan and without charges.
C8_Witness ==
    \E s \in Shown :
        /\ \E k \in DOMAIN biens :
              /\ biens[k].duree >= 1 /\ biens[k].mensualite > 0
              /\ Len(s.res.annees) > biens[k].duree
        /\ \E k \in DOMAIN biens :
              /\ biens[k].duree = 0 /\ biens[k].loyer > 0
              /\ \A c \in DOMAIN biens[k].charges : biens[k].charges[c] = 0

\* C9 as stated: for any rent or charge line and any two projected years
\* y1 < y2, when the line's indexation rate is positive its value at y2 is
\* strictly greater than at y1.
C9_IndexedLinesIncrease ==
    \A s \in Shown : \A k \in DOMAIN biens : \A ligne \in Lignes :
        \A i1, i2 \in DOMAIN s.res.annees :
            (i1 < i2 /\ ligne_idx(s.hyp, ligne) > 0) =>
                ligne_an(biens[k], s.hyp, ligne, s.res.annees[i2])
                  > ligne_an(biens[k], s.hyp, ligne, s.res.annees[i1])

\* C9 as amended: the same for the lines whose year-1 base is positive.
C9_PositiveLinesIncrease ==
    \A s \in Shown : \A k \in DOMAIN biens : \A ligne \in Lignes :
        \A i1, i2 \in DOMAIN s.res.annees :
            (i1 < i2 /\ ligne_idx(s.hyp, ligne) > 0 /\ ligne_base(biens[k], ligne) > 0) =>
                ligne_an(biens[k], s.hyp, ligne, s.res.annees[i2])
                  > ligne_an(biens[k], s.hyp, ligne, s.res.annees[i1])

\* A projection over several years of a bien with a positive rent and a
\* positive charge, both indexed at a positive rate.
C9_Witness ==
    \E s \in Shown : \E k \in DOMAIN biens : \E ligne \in Lignes \ {"loyer"} :
        /\ Len(s.res.annees) >= 3
        /\ biens[k].loyer > 0 /\ s.hyp.revalo_loyers > 0
        /\ ligne_base(biens[k], ligne) > 0 /\ ligne_idx(s.hyp, ligne) > 0

\* C10: a step that leaves a projection on screen changes neither the biens
\* (their monthly payments and schedules included) nor the parameters of
\* either scenario, and projecting again from the state it leaves returns
\* the same tables, for the selected scenario and for the other one.
C10_ProjectionChangesNothing ==
    [][res_sel' # <<>> =>
          /\ biens' = biens /\ hypA' = hypA /\ hypB' = hypB
          /\ res_sel'[1] = project_with_scenario(biens', Hyp(hyp_sel)')
          /\ res_other' # <<>> =>
                res_other'[1] = project_with_scenario(biens', Hyp(OtherName(hyp_sel))')
      ]_vars

\* A projection of both scenarios, whose parameters differ, over a portfolio
\* with a loan schedule.
C10_Witness ==
    /\ res_sel # <<>> /\ res_other # <<>>
    /\ hypA.revalo_loyers # hypB.revalo_loyers
    /\ res_sel[1].total_cashflow # res_other[1].total_cashflow
    /\ \E k \in DOMAIN biens : biens[k].amort # <<>> /\ biens[k].mensualite > 0

\* C11: a save in the hypotheses window of one scenario, accepted or not,
\* leaves the other scenario's nine parameters and the list of biens as they
\* were, so a projection under the other scenario that was on screen before
\* the save is what projecting under it after the save gives again.
C11_EditTouchesOneScenario ==
    [][\A which \in {"A", "B"} : \A form \in HypForms :
          EditHypotheses(which, form) =>
              /\ Hyp(OtherName(which))' = Hyp(OtherName(which))
              /\ biens' = biens
              /\ \A s \in Shown :
                    s.hyp.name = OtherName(which) =>
                        project_with_scenario(biens', Hyp(OtherName(which))') = s.res]_vars

\* After additions of biens, a save of scenario A has been accepted: A has
\* the saved parameters, B still has the ones it was constructed with and
\* the two projections differ.
C11_Witness ==
    /\ message = "OK: Hypotheses mises a jour"
    /\ biens # <<>>
    /\ hypA = hyp_assign(HypScenario("A"), CHOOSE f \in HypForms : f.bad = 0, 1)
    /\ hypB = HypScenario("B")
    /\ project_with_scenario(biens, hypA).total_cashflow
          # project_with_scenario(biens, hypB).total_cashflow

\* C12: a save in the hypotheses window with a non-numeric entry reports an
\* error and leaves every parameter of the edited scenario at the value it
\* had before the save, so a later projection runs under the unmodified
\* scenario.
C12_MalformedEditRejectedWhole ==
    [][\A which \in {"A", "B"} : \A form \in HypForms :
          (EditHypotheses(which, form) /\ form.bad # 0) =>
              /\ message' = "Erreur: Valeurs invalides"
              /\ Hyp(which)' = Hyp(which)
              /\ project_with_scenario(biens', Hyp(which)')
                    = project_with_scenario(biens, Hyp(which))]_vars

====
